---- MODULE Spec2Model ----
(***************************************************************************)
(* The non-recursive S-expression reader of src/src/main.rs (fn read and   *)
(* fn to_atom), as a state machine that consumes one character per step.   *)
(***************************************************************************)
EXTENDS Integers, Sequences, FiniteSets, TLC

\* Longest input text explored.
MaxLen == 5

\* Characters the inputs are drawn from: both parens, a whitespace, two
\* digits, the decimal point, and '-' for every character that is none of
\* these (read has one arm for them all).
Alphabet == {"(", ")", " ", "0", "5", ".", "-"}

VARIABLES code, pos, accum, exprs, stack, state, list, result, pc

vars == <<code, pos, accum, exprs, stack, state, list, result, pc>>

----------------------------------------------------------------------------
\* Character classes of the match arms of read.

Whitespace == {" ", "\n", "\r", "\t"}

Digit == {"0", "1", "2", "3", "4", "5", "6", "7", "8", "9"}

DigitVal(c) ==
    CASE c = "0" -> 0 [] c = "1" -> 1 [] c = "2" -> 2 [] c = "3" -> 3
      [] c = "4" -> 4 [] c = "5" -> 5 [] c = "6" -> 6 [] c = "7" -> 7
      [] c = "8" -> 8 [] c = "9" -> 9

----------------------------------------------------------------------------
\* SymbolicExpr: the three variants, as records of one shape.

Number(v) == [tag |-> "Number", num |-> v, sym |-> <<>>, children |-> <<>>]

Symbol(s) == [tag |-> "Symbol", num |-> <<>>, sym |-> s, children |-> <<>>]

ListExpr(es) == [tag |-> "List", num |-> <<>>, sym |-> <<>>, children |-> es]

\* The value of `list` outside the close-paren arm, where it is not in scope.
NoList == [tag |-> "None", num |-> <<>>, sym |-> <<>>, children |-> <<>>]

\* The error messages read and to_atom return.
CannotParseNumber == "Cannot parse number"

InvalidAtom == "Invalid atom"

MissingOpenParen == "Missing '('"

InvalidNumber == "Invalid number"

UnmatchedOpenParen == "Unmatched '('"

\* Result<_, &'static str>
Ok(v) == [kind |-> "Ok", val |-> v, err |-> ""]

Err(s) == [kind |-> "Err", val |-> <<>>, err |-> s]

\* read has not returned yet.
Pending == [kind |-> "Pending", val |-> <<>>, err |-> ""]

----------------------------------------------------------------------------
\* accum.parse::<f64>().  A decimal text of at most 15 significant digits and
\* the f64 nearest to it determine each other, so the f64 is modelled by the
\* exact decimal it reads: <<m, k>> stands for m / 10^k, with no trailing
\* zero in m when k > 0.  The text is [sign] digits [. digits] with at least
\* one digit; anything else does not parse.

RECURSIVE DigitsValue(_)
DigitsValue(s) ==
    IF s = <<>> THEN 0
    ELSE 10 * DigitsValue(SubSeq(s, 1, Len(s) - 1)) + DigitVal(s[Len(s)])

RECURSIVE Normalize(_, _)
Normalize(m, k) ==
    IF k > 0 /\ m % 10 = 0 THEN Normalize(m \div 10, k - 1) ELSE <<m, k>>

AllDigits(s) == \A i \in 1..Len(s) : s[i] \in Digit

ParseF64(text) ==
    LET signed == Len(text) > 0 /\ text[1] \in {"-", "+"}
        body   == IF signed THEN SubSeq(text, 2, Len(text)) ELSE text
        dots   == {i \in 1..Len(body) : body[i] = "."}
        dot    == IF dots = {} THEN Len(body) + 1
                  ELSE CHOOSE i \in dots : \A j \in dots : i <= j
        int    == SubSeq(body, 1, dot - 1)
        frac   == SubSeq(body, dot + 1, Len(body))
        mag    == Normalize(DigitsValue(int \o frac), Len(frac))
    IN  IF AllDigits(int) /\ AllDigits(frac) /\ Len(int) + Len(frac) > 0
        THEN Ok(IF signed /\ text[1] = "-" THEN <<0 - mag[1], mag[2]>> ELSE mag)
        ELSE Err(CannotParseNumber)

\* to_atom whose number arm leaves out State::Floating.
to_atom_IntegerOnly(st, acc) ==
    CASE st = "Symbol" -> Ok(Symbol(acc))
      [] st = "Integer" ->
            LET p == ParseF64(acc)
            IN  IF p.kind = "Ok" THEN Ok(Number(p.val)) ELSE Err(CannotParseNumber)
      [] OTHER -> Err(InvalidAtom)

\* to_atom whose number arm takes State::IncompleteFloating too.
to_atom_ParsesIncomplete(st, acc) ==
    CASE st = "Symbol" -> Ok(Symbol(acc))
      [] st \in {"Integer", "Floating", "IncompleteFloating"} ->
            LET p == ParseF64(acc)
            IN  IF p.kind = "Ok" THEN Ok(Number(p.val)) ELSE Err(CannotParseNumber)
      [] OTHER -> Err(InvalidAtom)

\* fn to_atom, lines 46-59.
to_atom(st, acc) ==
    CASE st = "Symbol" -> Ok(Symbol(acc))
      [] st \in {"Integer", "Floating"} ->
            LET p == ParseF64(acc)
            IN  IF p.kind = "Ok" THEN Ok(Number(p.val)) ELSE Err(CannotParseNumber)
      [] OTHER -> Err(InvalidAtom)

----------------------------------------------------------------------------
\* NextState whose decimal-point arm takes State::Floating too.
NextState_SecondPoint(st, c) ==
    IF st = "Start" /\ c \in Digit THEN "Integer"
    ELSE IF st = "Start" THEN "Symbol"
    ELSE IF st \in {"Integer", "Floating"} /\ c = "." THEN "IncompleteFloating"
    ELSE IF st = "IncompleteFloating" /\ c \in Digit THEN "Floating"
    ELSE IF st \in {"Integer", "Floating"} /\ c \in Digit THEN st
    ELSE IF st \in {"Integer", "Floating", "IncompleteFloating"} THEN "Reject"
    ELSE "Symbol"

\* NextState whose first arm takes '-' and '.' as the start of a number.
NextState_SignedNumber(st, c) ==
    IF st = "Start" /\ c \in Digit \cup {"-", "."} THEN "Integer"
    ELSE IF st = "Start" THEN "Symbol"
    ELSE IF st = "Integer" /\ c = "." THEN "IncompleteFloating"
    ELSE IF st = "IncompleteFloating" /\ c \in Digit THEN "Floating"
    ELSE IF st \in {"Integer", "Floating"} /\ c \in Digit THEN st
    ELSE IF st \in {"Integer", "Floating", "IncompleteFloating"} THEN "Reject"
    ELSE "Symbol"

\* NextState without the reject arm for State::Integer: any other character
\* is pushed on the number.
NextState_IntegerTakesAny(st, c) ==
    IF st = "Start" /\ c \in Digit THEN "Integer"
    ELSE IF st = "Start" THEN "Symbol"
    ELSE IF st = "Integer" /\ c = "." THEN "IncompleteFloating"
    ELSE IF st = "IncompleteFloating" /\ c \in Digit THEN "Floating"
    ELSE IF st \in {"Integer", "Floating"} /\ c \in Digit THEN st
    ELSE IF st \in {"Floating", "IncompleteFloating"} THEN "Reject"
    ELSE st

\* NextState whose arm for a digit after the point forgets to move on to
\* State::Floating.
NextState_StuckIncomplete(st, c) ==
    IF st = "Start" /\ c \in Digit THEN "Integer"
    ELSE IF st = "Start" THEN "Symbol"
    ELSE IF st = "Integer" /\ c = "." THEN "IncompleteFloating"
    ELSE IF st = "IncompleteFloating" /\ c \in Digit THEN "IncompleteFloating"
    ELSE IF st \in {"Integer", "Floating"} /\ c \in Digit THEN st
    ELSE IF st \in {"Integer", "Floating", "IncompleteFloating"} THEN "Reject"
    ELSE "Symbol"

\* The arms (state, c) of the inner match for a character that is neither
\* whitespace nor a paren, lines 122-152, tried in the order of the source;
\* the last arm is (State::Symbol, _).  "Reject" is the arm that returns
\* Err("Invalid number").
NextState(st, c) ==
    IF st = "Start" /\ c \in Digit THEN "Integer"
    ELSE IF st = "Start" THEN "Symbol"
    ELSE IF st = "Integer" /\ c = "." THEN "IncompleteFloating"
    ELSE IF st = "IncompleteFloating" /\ c \in Digit THEN "Floating"
    ELSE IF st \in {"Integer", "Floating"} /\ c \in Digit THEN st
    ELSE IF st \in {"Integer", "Floating", "IncompleteFloating"} THEN "Reject"
    ELSE "Symbol"

\* PopParent without line 115: the closed list is not pushed on the parent.
PopParent_DropsList(stk, lst) ==
    IF stk # <<>>
    THEN Ok(stk[Len(stk)])
    ELSE Err(MissingOpenParen)

\* PopParent that reports the other paren error.
PopParent_WrongError(stk, lst) ==
    IF stk # <<>>
    THEN Ok(Append(stk[Len(stk)], lst))
    ELSE Err(UnmatchedOpenParen)

\* PopParent that starts a buffer of its own when there is nothing to pop.
PopParent_Orphan(stk, lst) ==
    IF stk # <<>>
    THEN Ok(Append(stk[Len(stk)], lst))
    ELSE Ok(<<lst>>)

\* PopParent that puts the closed list in front of the parent's children.
PopParent_Prepends(stk, lst) ==
    IF stk # <<>>
    THEN Ok(<<lst>> \o stk[Len(stk)])
    ELSE Err(MissingOpenParen)

\* match stack.pop(), lines 113-119: the parent buffer with the closed list
\* pushed on it, or "Missing '('" when there is nothing to pop.
PopParent(stk, lst) ==
    IF stk # <<>>
    THEN Ok(Append(stk[Len(stk)], lst))
    ELSE Err(MissingOpenParen)

\* Finish without the test of the stack.
Finish_NoStackTest(stk, es) == Ok(es)

\* The final test of read, lines 167-171.
Finish(stk, es) ==
    IF Len(stk) = 0 THEN Ok(es) ELSE Err(UnmatchedOpenParen)

\* All texts over Alphabet of length at most MaxLen.
Inputs == UNION {[1..n -> Alphabet] : n \in 0..MaxLen}

\* The locals of read as declared at lines 63-66, before the loop.
Init ==
    /\ code \in Inputs
    /\ pos = 0
    /\ accum = <<>>
    /\ exprs = <<>>
    /\ stack = <<>>
    /\ state = "Start"
    /\ list = NoList
    /\ result = Pending
    /\ pc = "scan"

\* Longest input text explored with all four whitespace characters.
WsMaxLen == 4

\* Characters of those inputs: the four whitespace characters of line 71,
\* both parens, a digit, the decimal point and '-'.
WsAlphabet == {" ", "\n", "\r", "\t", "(", ")", "5", ".", "-"}

\* The locals of read before the loop, for a text over WsAlphabet.
InitWs ==
    /\ code \in UNION {[1..n -> WsAlphabet] : n \in 0..WsMaxLen}
    /\ pos = 0
    /\ accum = <<>>
    /\ exprs = <<>>
    /\ stack = <<>>
    /\ state = "Start"
    /\ list = NoList
    /\ result = Pending
    /\ pc = "scan"

\* Return that records the result and lets the loop go on.
Return_NoStop(r) ==
    /\ result' = r
    /\ pc' = "scan"

\* `return`: read stops where it is with the result r.
Return(r) ==
    /\ result' = r
    /\ pc' = "done"

\* The loop goes on to the next character.
Continue ==
    /\ result' = result
    /\ pc' = "scan"

\* The loop has a next character c.
HasNext == pc = "scan" /\ pos < Len(code)

\* ReadWhitespace without line 77: the state is not reset.
ReadWhitespace_KeepsState ==
    /\ HasNext
    /\ code[pos + 1] \in Whitespace
    /\ pos' = pos + 1
    /\ IF state # "Start"
       THEN LET a == to_atom(state, accum)
            IN  IF a.kind = "Ok"
                THEN /\ exprs' = Append(exprs, a.val)
                     /\ accum' = <<>>
                     /\ state' = state
                     /\ Continue
                ELSE /\ Return(Err(a.err))
                     /\ UNCHANGED <<exprs, accum, state>>
       ELSE /\ Continue
            /\ UNCHANGED <<exprs, accum, state>>
    /\ UNCHANGED <<code, stack, list>>

\* ReadWhitespace without line 76: the accumulator is not cleared.
ReadWhitespace_NoClear ==
    /\ HasNext
    /\ code[pos + 1] \in Whitespace
    /\ pos' = pos + 1
    /\ IF state # "Start"
       THEN LET a == to_atom(state, accum)
            IN  IF a.kind = "Ok"
                THEN /\ exprs' = Append(exprs, a.val)
                     /\ accum' = accum
                     /\ state' = "Start"
                     /\ Continue
                ELSE /\ Return(Err(a.err))
                     /\ UNCHANGED <<exprs, accum, state>>
       ELSE /\ Continue
            /\ UNCHANGED <<exprs, accum, state>>
    /\ UNCHANGED <<code, stack, list>>

\* ReadWhitespace that does not move on to the next character.
ReadWhitespace_NoAdvance ==
    /\ HasNext
    /\ code[pos + 1] \in Whitespace
    /\ pos' = pos
    /\ IF state # "Start"
       THEN LET a == to_atom(state, accum)
            IN  IF a.kind = "Ok"
                THEN /\ exprs' = Append(exprs, a.val)
                     /\ accum' = <<>>
                     /\ state' = "Start"
                     /\ Continue
                ELSE /\ Return(Err(a.err))
                     /\ UNCHANGED <<exprs, accum, state>>
       ELSE /\ Continue
            /\ UNCHANGED <<exprs, accum, state>>
    /\ UNCHANGED <<code, stack, list>>

\* ReadWhitespace without the guard of line 72: to_atom is called in Start
\* state too.
ReadWhitespace_Unguarded ==
    /\ HasNext
    /\ code[pos + 1] \in Whitespace
    /\ pos' = pos + 1
    /\ LET a == to_atom(state, accum)
       IN  IF a.kind = "Ok"
           THEN /\ exprs' = Append(exprs, a.val)
                /\ accum' = <<>>
                /\ state' = "Start"
                /\ Continue
           ELSE /\ Return(Err(a.err))
                /\ UNCHANGED <<exprs, accum, state>>
    /\ UNCHANGED <<code, stack, list>>

\* The whitespace arm, lines 71-82.
ReadWhitespace ==
    /\ HasNext
    /\ code[pos + 1] \in Whitespace
    /\ pos' = pos + 1
    /\ IF state # "Start"
       THEN LET a == to_atom(state, accum)
            IN  IF a.kind = "Ok"
                THEN /\ exprs' = Append(exprs, a.val)
                     /\ accum' = <<>>
                     /\ state' = "Start"
                     /\ Continue
                ELSE /\ Return(Err(a.err))
                     /\ UNCHANGED <<exprs, accum, state>>
       ELSE /\ Continue
            /\ UNCHANGED <<exprs, accum, state>>
    /\ UNCHANGED <<code, stack, list>>

\* ReadOpenParen that pushes the buffer before it finalizes the atom, so
\* the atom starts the new list.
ReadOpenParen_AtomInNewList ==
    /\ HasNext
    /\ code[pos + 1] = "("
    /\ pos' = pos + 1
    /\ LET a == to_atom(state, accum)
       IN  IF state # "Start" /\ a.kind # "Ok"
           THEN /\ Return(Err(a.err))
                /\ UNCHANGED <<exprs, accum, state, stack>>
           ELSE /\ stack' = Append(stack, exprs)
                /\ accum' = IF state # "Start" THEN <<>> ELSE accum
                /\ state' = "Start"
                /\ exprs' = IF state # "Start" THEN <<a.val>> ELSE <<>>
                /\ Continue
    /\ UNCHANGED <<code, list>>

\* ReadOpenParen that pushes the current buffer only when it holds
\* something.
ReadOpenParen_SkipsEmpty ==
    /\ HasNext
    /\ code[pos + 1] = "("
    /\ pos' = pos + 1
    /\ LET a == to_atom(state, accum)
       IN  IF state # "Start" /\ a.kind # "Ok"
           THEN /\ Return(Err(a.err))
                /\ UNCHANGED <<exprs, accum, state, stack>>
           ELSE LET before == IF state # "Start"
                              THEN Append(exprs, a.val) ELSE exprs
                IN  /\ stack' = IF before # <<>> THEN Append(stack, before) ELSE stack
                    /\ accum' = IF state # "Start" THEN <<>> ELSE accum
                    /\ state' = "Start"
                    /\ exprs' = <<>>
                    /\ Continue
    /\ UNCHANGED <<code, list>>

\* The open-paren arm, lines 86-99.
ReadOpenParen ==
    /\ HasNext
    /\ code[pos + 1] = "("
    /\ pos' = pos + 1
    /\ LET a == to_atom(state, accum)
       IN  IF state # "Start" /\ a.kind # "Ok"
           THEN /\ Return(Err(a.err))
                /\ UNCHANGED <<exprs, accum, state, stack>>
           ELSE /\ stack' = Append(stack, IF state # "Start"
                                          THEN Append(exprs, a.val) ELSE exprs)
                /\ accum' = IF state # "Start" THEN <<>> ELSE accum
                /\ state' = "Start"
                /\ exprs' = <<>>
                /\ Continue
    /\ UNCHANGED <<code, list>>

\* ReadCloseParen without lines 102-110: the atom in progress is not
\* finalized into the list that is closed.
ReadCloseParen_DropsAtom ==
    /\ HasNext
    /\ code[pos + 1] = ")"
    /\ pos' = pos + 1
    /\ LET parent == PopParent(stack, ListExpr(exprs))
       IN  /\ list' = ListExpr(exprs)
           /\ accum' = <<>>
           /\ state' = "Start"
           /\ IF parent.kind = "Ok"
              THEN /\ exprs' = parent.val
                   /\ stack' = SubSeq(stack, 1, Len(stack) - 1)
                   /\ Continue
              ELSE /\ Return(Err(parent.err))
                   /\ exprs' = <<>>
                   /\ stack' = stack
    /\ UNCHANGED code

\* The close-paren arm, lines 101-120.  The List is built from the current
\* buffer (line 111), which moves the buffer into it, before the stack is
\* popped (line 113).
ReadCloseParen ==
    /\ HasNext
    /\ code[pos + 1] = ")"
    /\ pos' = pos + 1
    /\ LET a == to_atom(state, accum)
       IN  IF state # "Start" /\ a.kind # "Ok"
           THEN /\ Return(Err(a.err))
                /\ UNCHANGED <<exprs, accum, state, stack, list>>
           ELSE LET closed == IF state # "Start"
                              THEN Append(exprs, a.val) ELSE exprs
                    parent == PopParent(stack, ListExpr(closed))
                IN  /\ list' = ListExpr(closed)
                    /\ accum' = IF state # "Start" THEN <<>> ELSE accum
                    /\ state' = "Start"
                    /\ IF parent.kind = "Ok"
                       THEN /\ exprs' = parent.val
                            /\ stack' = SubSeq(stack, 1, Len(stack) - 1)
                            /\ Continue
                       ELSE /\ Return(Err(parent.err))
                            /\ exprs' = <<>>
                            /\ stack' = stack
    /\ UNCHANGED code

\* The atom state machine, lines 122-152: the accepted character is pushed
\* on accum, a rejected one returns "Invalid number".
ReadAtomChar ==
    /\ HasNext
    /\ code[pos + 1] \notin Whitespace \cup {"(", ")"}
    /\ pos' = pos + 1
    /\ LET c  == code[pos + 1]
           st == NextState(state, c)
       IN  IF st # "Reject"
           THEN /\ state' = st
                /\ accum' = Append(accum, c)
                /\ Continue
           ELSE /\ Return(Err(InvalidNumber))
                /\ UNCHANGED <<state, accum>>
    /\ UNCHANGED <<code, exprs, stack, list>>

\* EndOfInput that tests the stack before it finalizes the atom.
EndOfInput_StackFirst ==
    /\ pc = "scan"
    /\ pos = Len(code)
    /\ LET a == to_atom(state, accum)
       IN  IF Len(stack) # 0
           THEN /\ Return(Err(UnmatchedOpenParen))
                /\ exprs' = exprs
           ELSE IF state # "Start" /\ a.kind # "Ok"
           THEN /\ Return(Err(a.err))
                /\ exprs' = exprs
           ELSE /\ exprs' = IF state # "Start" THEN Append(exprs, a.val) ELSE exprs
                /\ Return(Ok(exprs'))
    /\ UNCHANGED <<code, pos, accum, stack, state, list>>

\* After the loop, lines 158-171: the atom in progress is finalized first,
\* then the stack is tested.
EndOfInput ==
    /\ pc = "scan"
    /\ pos = Len(code)
    /\ LET a == to_atom(state, accum)
       IN  IF state # "Start" /\ a.kind # "Ok"
           THEN /\ Return(Err(a.err))
                /\ exprs' = exprs
           ELSE /\ exprs' = IF state # "Start" THEN Append(exprs, a.val) ELSE exprs
                /\ Return(Finish(stack, exprs'))
    /\ UNCHANGED <<code, pos, accum, stack, state, list>>

Next ==
    \/ ReadWhitespace
    \/ ReadOpenParen
    \/ ReadCloseParen
    \/ ReadAtomChar
    \/ EndOfInput

\* read runs on: the loop takes its next iteration, and the code after the
\* loop runs, whenever there is one to take (a sequential function that
\* nothing suspends).  On the texts with all four whitespace characters.
FairSpec == InitWs /\ [][Next]_vars /\ WF_vars(Next)

\* read on the texts with all four whitespace characters.
SpecWs == InitWs /\ [][Next]_vars

Spec == Init /\ [][Next]_vars

----------------------------------------------------------------------------
\* The input text as the claims describe it, read off the characters alone.

IsAtomChar(c) == c \notin Whitespace \cup {"(", ")"}

Count(s, c, k) == Cardinality({i \in 1..k : s[i] = c})

\* Open-parens minus close-parens among the first k characters.
Depth(s, k) == Count(s, "(", k) - Count(s, ")", k)

Opens(s) == Count(s, "(", Len(s))

Closes(s) == Count(s, ")", Len(s))

\* Every close-paren has an earlier open-paren of its own.
NoUnmatchedClose(s) == \A k \in 0..Len(s) : Depth(s, k) >= 0

Balanced(s) == NoUnmatchedClose(s) /\ Depth(s, Len(s)) = 0

\* The atom text that ends right before position p (empty when the
\* character before p is whitespace or a paren); p = Len(s) + 1 is the end
\* of the input.
RunStart(s, p) ==
    CHOOSE i \in 1..p : /\ \A j \in i..(p - 1) : IsAtomChar(s[j])
                        /\ (i = 1 \/ ~IsAtomChar(s[i - 1]))

RunBefore(s, p) == SubSeq(s, RunStart(s, p), p - 1)

\* Position p ends an atom: whitespace, a paren or the end of the input.
Boundary(s, p) == p = Len(s) + 1 \/ ~IsAtomChar(s[p])

IsInteger(a) == a # <<>> /\ AllDigits(a)

\* digits '.' with nothing after the point
IsIncomplete(a) ==
    Len(a) >= 2 /\ a[Len(a)] = "." /\ AllDigits(SubSeq(a, 1, Len(a) - 1))

\* digits '.' digits
IsDecimal(a) ==
    \E d \in 2..(Len(a) - 1) : /\ a[d] = "."
                               /\ AllDigits(SubSeq(a, 1, d - 1))
                               /\ AllDigits(SubSeq(a, d + 1, Len(a)))

ValidAtomText(a) ==
    a # <<>> /\ (a[1] \notin Digit \/ IsInteger(a) \/ IsDecimal(a))

AllAtomsValid(s) ==
    \A p \in 1..(Len(s) + 1) :
        Boundary(s, p) /\ RunBefore(s, p) # <<>> => ValidAtomText(RunBefore(s, p))

\* The close-paren that matches the open-paren at position i.
Match(s, i) ==
    CHOOSE j \in (i + 1)..Len(s) : /\ Depth(s, j) = Depth(s, i - 1)
                                   /\ \A k \in i..(j - 1) : Depth(s, k) > Depth(s, i - 1)

\* For each open-paren of a balanced text, left to right: the depth of its
\* pair and whether its body holds nothing but whitespace.
RECURSIVE PairsFrom(_, _)
PairsFrom(s, i) ==
    IF i > Len(s) THEN <<>>
    ELSE (IF s[i] = "("
          THEN << <<Depth(s, i - 1),
                    \A k \in (i + 1)..(Match(s, i) - 1) : s[k] \in Whitespace>> >>
          ELSE <<>>) \o PairsFrom(s, i + 1)

\* For each List node of a forest, in preorder: its depth and whether it has
\* no children.
RECURSIVE ListsOf(_, _)
ListsOf(es, d) ==
    IF es = <<>> THEN <<>>
    ELSE LET h == Head(es)
         IN  (IF h.tag = "List"
              THEN << <<d, h.children = <<>> >> >> \o ListsOf(h.children, d + 1)
              ELSE <<>>) \o ListsOf(Tail(es), d)

----------------------------------------------------------------------------
\* C1: an input with balanced parentheses and valid atoms only parses: read
\* returns Ok, and the forest has one List node per matched pair, in the
\* order of the open-parens, each at the depth of its pair and empty exactly
\* when the pair's body is.
C1_BalancedInputParses ==
    pc = "done" /\ Balanced(code) /\ AllAtomsValid(code)
        => /\ result.kind = "Ok"
           /\ ListsOf(result.val, 0) = PairsFrom(code, 1)

\* A balanced input with a list inside a list has been read.
C1_Witness ==
    /\ pc = "done"
    /\ Balanced(code) /\ AllAtomsValid(code)
    /\ result.kind = "Ok"
    /\ \E i \in 1..Len(code) : code[i] = "(" /\ Depth(code, i - 1) = 1

----------------------------------------------------------------------------
\* The error that the character at position p, or the end of the input at
\* p = Len(s) + 1, raises after an error-free scan of the text before it;
\* "" when it raises none.
OffenceAt(s, p) ==
    LET run == RunBefore(s, p)
    IN  IF ~Boundary(s, p)
        THEN LET grown == Append(run, s[p])
             IN  IF /\ run # <<>>
                    /\ run[1] \in Digit
                    /\ ~(IsInteger(grown) \/ IsIncomplete(grown) \/ IsDecimal(grown))
                 THEN InvalidNumber
                 ELSE ""
        ELSE IF IsIncomplete(run) THEN InvalidAtom
        ELSE IF p <= Len(s) /\ s[p] = ")" /\ Depth(s, p - 1) <= 0 THEN MissingOpenParen
        ELSE IF p = Len(s) + 1 /\ Depth(s, Len(s)) > 0 THEN UnmatchedOpenParen
        ELSE ""

Offences(s) == {p \in 1..(Len(s) + 1) : OffenceAt(s, p) # ""}

\* The earliest offending position, 0 when there is none.
FirstOffence(s) ==
    IF Offences(s) = {} THEN 0
    ELSE CHOOSE p \in Offences(s) : \A q \in Offences(s) : p <= q

\* Characters consumed when read stops at offending position p.
ConsumedAt(s, p) == IF p > Len(s) THEN Len(s) ELSE p

\* C2: read ends with a forest or with one error, never both.  The error is
\* the one of the earliest offending position of the text, read stops with
\* exactly the characters up to that position consumed, no node comes with
\* the error, and while read is running no offending position is behind it.
C2_FirstErrorOnly ==
    /\ pc = "done" => result.kind \in {"Ok", "Err"}
    /\ result.kind = "Pending" => \A p \in 1..pos : OffenceAt(code, p) = ""
    /\ result.kind = "Ok" =>
          /\ pc = "done"
          /\ result.err = ""
          /\ FirstOffence(code) = 0
          /\ pos = Len(code)
    /\ result.kind = "Err" =>
          /\ pc = "done"
          /\ result.val = <<>>
          /\ FirstOffence(code) # 0
          /\ result.err = OffenceAt(code, FirstOffence(code))
          /\ pos = ConsumedAt(code, FirstOffence(code))

\* read has stopped on an error with a second offending position still
\* unread behind it.
C2_Witness ==
    /\ pc = "done"
    /\ result.kind = "Err"
    /\ \E q \in (pos + 1)..Len(code) : OffenceAt(code, q) \notin {"", result.err}

\* C3 as stated: more open-parens than close-parens always gives
\* UnmatchedOpenParen.
C3_AsStated ==
    pc = "done" /\ Opens(code) > Closes(code) => result = Err(UnmatchedOpenParen)

\* C3 amended: an input with more open-parens than close-parens fails; the
\* error is UnmatchedOpenParen exactly when all atoms are valid and every
\* close-paren has its open-paren, and otherwise it is the InvalidNumber,
\* InvalidAtom or MissingOpenParen that the scan raised before the end.
C3_UnmatchedOpenFails ==
    pc = "done" /\ Opens(code) > Closes(code) =>
        /\ result.kind = "Err"
        /\ IF AllAtomsValid(code) /\ NoUnmatchedClose(code)
           THEN result.err = UnmatchedOpenParen
           ELSE result.err \in {InvalidNumber, InvalidAtom, MissingOpenParen}

\* An input with an atom, a closed list and an open-paren left open has
\* been rejected with UnmatchedOpenParen.
C3_Witness ==
    /\ pc = "done"
    /\ Opens(code) > Closes(code)
    /\ Closes(code) > 0
    /\ state # "Start"
    /\ result = Err(UnmatchedOpenParen)

\* The first close-paren that has no open-paren, 0 when there is none.
FirstUnmatchedClose(s) ==
    IF NoUnmatchedClose(s) THEN 0
    ELSE CHOOSE k \in 1..Len(s) : Depth(s, k) < 0 /\ \A j \in 0..(k - 1) : Depth(s, j) >= 0

\* C4 as stated: a close-paren without an earlier open-paren always gives
\* MissingOpenParen.
C4_AsStated ==
    pc = "done" /\ ~NoUnmatchedClose(code) => result = Err(MissingOpenParen)

\* C4 amended: an input with a close-paren that has no earlier open-paren
\* fails; the error is MissingOpenParen exactly when every atom before the
\* first such close-paren is valid, and otherwise it is the InvalidNumber or
\* InvalidAtom of the first invalid atom before it.
C4_UnmatchedCloseFails ==
    pc = "done" /\ ~NoUnmatchedClose(code) =>
        /\ result.kind = "Err"
        /\ IF AllAtomsValid(SubSeq(code, 1, FirstUnmatchedClose(code) - 1))
           THEN result.err = MissingOpenParen /\ pos = FirstUnmatchedClose(code)
           ELSE result.err \in {InvalidNumber, InvalidAtom} /\ pos <= FirstUnmatchedClose(code)

\* A close-paren with no open-paren, met late in the text with an atom in
\* progress, has been rejected with MissingOpenParen.
C4_Witness ==
    /\ pc = "done"
    /\ result = Err(MissingOpenParen)
    /\ pos = FirstUnmatchedClose(code)
    /\ pos >= 4
    /\ IsAtomChar(code[pos - 1])

\* C5: a non-empty input that does not start with a digit and has neither
\* whitespace nor parens gives one Symbol holding the input verbatim.
C5_SymbolVerbatim ==
    /\ pc = "done"
    /\ code # <<>>
    /\ code[1] \notin Digit
    /\ \A i \in 1..Len(code) : IsAtomChar(code[i])
    => result = Ok(<<Symbol(code)>>)

\* A symbol that starts with '-' or '.' and goes on with a digit and a
\* decimal point has been read.
C5_Witness ==
    /\ pc = "done"
    /\ Len(code) >= 3
    /\ code[1] \in {"-", "."}
    /\ code[2] \in Digit
    /\ \E i \in 3..Len(code) : code[i] = "."
    /\ result = Ok(<<Symbol(code)>>)

RECURSIVE Pow10(_)
Pow10(k) == IF k = 0 THEN 1 ELSE 10 * Pow10(k - 1)

\* Digits of a text after its decimal point, 0 when it has none.
FractionDigits(a) ==
    IF \E i \in 1..Len(a) : a[i] = "."
    THEN Len(a) - (CHOOSE i \in 1..Len(a) : a[i] = ".")
    ELSE 0

IsDigitChar(c) == c \in Digit

\* C6: an input that is digits, or digits '.' digits, gives one Number,
\* whose value m / 10^k is the decimal the whole text denotes and is what
\* the floating-point conversion makes of the whole text.
C6_NumberFromWholeText ==
    pc = "done" /\ (IsInteger(code) \/ IsDecimal(code)) =>
        /\ result.kind = "Ok"
        /\ Len(result.val) = 1
        /\ result.val[1] = Number(ParseF64(code).val)
        /\ LET v == result.val[1].num
           IN  /\ v[2] <= FractionDigits(code)
               /\ v[1] * Pow10(FractionDigits(code) - v[2])
                     = DigitsValue(SelectSeq(code, IsDigitChar))

\* A decimal with a leading and a trailing zero has been read, so the value
\* is not the text.
C6_Witness ==
    /\ pc = "done"
    /\ IsDecimal(code)
    /\ code[1] = "0"
    /\ code[Len(code)] = "0"
    /\ result.kind = "Ok"
    /\ result.val[1].num[2] < FractionDigits(code)

\* The text before position k + 1 is free of errors: valid atoms only and
\* no close-paren without its open-paren.
PrefixClean(s, k) ==
    AllAtomsValid(SubSeq(s, 1, k)) /\ NoUnmatchedClose(SubSeq(s, 1, k))

\* C7 as stated: any atom whose last character is a decimal point gives
\* InvalidAtom.
C7_AsStated ==
    /\ pc = "done"
    /\ \E p \in 2..(Len(code) + 1) : Boundary(code, p) /\ code[p - 1] = "."
    => result = Err(InvalidAtom)

\* C7 amended: an atom made of digits and one final decimal point, ended by
\* whitespace, a paren or the end of the input, gives InvalidAtom at that
\* boundary, provided the text before the atom raised no error.
C7_TrailingPointFails ==
    pc = "done" =>
        \A p \in 1..(Len(code) + 1) :
            /\ Boundary(code, p)
            /\ IsIncomplete(RunBefore(code, p))
            /\ PrefixClean(code, RunStart(code, p) - 1)
            => result = Err(InvalidAtom) /\ pos = ConsumedAt(code, p)

\* digits '.' inside an open list, ended by the close-paren, has been
\* rejected with InvalidAtom.
C7_Witness ==
    /\ pc = "done"
    /\ result = Err(InvalidAtom)
    /\ state = "IncompleteFloating"
    /\ stack # <<>>
    /\ code[pos] = ")"

\* C8: while read is running, a character that is neither whitespace nor a
\* paren makes it return InvalidNumber when it is no digit and no '.' in
\* Integer state, or no digit in IncompleteFloating or Floating state.
C8_InvalidNumber ==
    [][HasNext /\ IsAtomChar(code[pos + 1])
       /\ \/ state = "Integer" /\ code[pos + 1] \notin Digit \cup {"."}
          \/ state \in {"IncompleteFloating", "Floating"} /\ code[pos + 1] \notin Digit
       => result' = Err(InvalidNumber) /\ pc' = "done"]_vars

\* A second decimal point in Floating state has been rejected.
C8_Witness ==
    /\ pc = "done"
    /\ result = Err(InvalidNumber)
    /\ state = "Floating"
    /\ code[pos] = "."

\* No character of the text raises an error (the end of input still may).
ScanClean(s) == \A p \in 1..Len(s) : OffenceAt(s, p) = ""

\* C9: when every character has been read without error, the atom in
\* progress is finalized first (digits '.' gives InvalidAtom whatever the
\* stack holds), then a non-empty stack gives UnmatchedOpenParen, and
\* otherwise the current buffer, with the finalized atom last, is returned.
\* read returns Ok only after such a scan and with the stack empty.
C9_EndOfInput ==
    /\ pc = "done" /\ ScanClean(code) =>
          /\ pos = Len(code)
          /\ IF state # "Start" /\ IsIncomplete(RunBefore(code, Len(code) + 1))
             THEN result = Err(InvalidAtom)
             ELSE IF stack # <<>>
             THEN result = Err(UnmatchedOpenParen)
             ELSE /\ result = Ok(exprs)
                  /\ state # "Start" =>
                        /\ exprs # <<>>
                        /\ exprs[Len(exprs)] = to_atom(state, accum).val
    /\ result.kind = "Ok" => ScanClean(code) /\ stack = <<>>

\* digits '.' at the end of the input with an open-paren still open has
\* been rejected with InvalidAtom, not UnmatchedOpenParen.
C9_Witness ==
    /\ pc = "done"
    /\ pos = Len(code)
    /\ ScanClean(code)
    /\ stack # <<>>
    /\ state = "IncompleteFloating"
    /\ result = Err(InvalidAtom)

\* The buffers read holds: the suspended ones, bottom first, then the
\* current one.
RECURSIVE Buffers(_)
Buffers(stk) == IF stk = <<>> THEN exprs ELSE Head(stk) \o Buffers(Tail(stk))

\* C10 as stated: no step builds a List while the nesting stack is empty.
C10_AsStated == [][list' # list => stack # <<>>]_vars

\* C10 amended: a List is pushed on a buffer or returned only when it was
\* built from a buffer that an open-paren opened and its close-paren closed.
\* A close-paren met with an empty stack does build a List from the
\* top-level buffer, but that List goes nowhere: read returns
\* MissingOpenParen at that step.  The buffers hold one List per close-paren
\* read, and an input with an unmatched paren returns no List.
C10_ListsOnlyFromMatchedPairs ==
    /\ [][list' # list /\ stack = <<>>
          => result' = Err(MissingOpenParen) /\ pc' = "done" /\ exprs' = <<>>]_vars
    /\ [](result.kind # "Err" =>
             /\ NoUnmatchedClose(SubSeq(code, 1, pos))
             /\ Len(ListsOf(Buffers(stack), 0)) = Closes(SubSeq(code, 1, pos)))
    /\ [](pc = "done" /\ ~Balanced(code) => result.kind = "Err" /\ result.val = <<>>)

\* A List with a child has been built from the top-level buffer and dropped
\* with MissingOpenParen.
C10_Witness ==
    /\ pc = "done"
    /\ result = Err(MissingOpenParen)
    /\ list.tag = "List"
    /\ list.children # <<>>
    /\ stack = <<>>

\* C11: "Cannot parse number" is never returned: in Integer state the
\* accumulator is a non-empty run of digits, in Floating state it is digits,
\* one '.', digits, and the conversion of either succeeds.
C11_NumberAlwaysParses ==
    /\ result.err # CannotParseNumber
    /\ state = "Integer" => IsInteger(accum)
    /\ state = "Floating" => IsDecimal(accum)
    /\ state \in {"Integer", "Floating"} =>
          /\ ParseF64(accum).kind = "Ok"
          /\ to_atom(state, accum).kind = "Ok"

\* An atom in Floating state has been finalized after one in Integer state.
C11_Witness ==
    /\ pc = "done"
    /\ result.kind = "Ok"
    /\ state = "Floating"
    /\ Len(exprs) >= 2
    /\ exprs[1].tag = "Number"


\* The node an atom text stands for: a Number by its value when the text
\* starts with a digit, a Symbol by its text otherwise.
AtomOf(text) ==
    IF text[1] \in Digit THEN Number(ParseF64(text).val) ELSE Symbol(text)

\* The current buffer once the atom in progress, if any, is its last
\* element; the atom's text is taken from the input.
WithAtom ==
    IF state # "Start"
    THEN Append(exprs, AtomOf(RunBefore(code, pos + 1)))
    ELSE exprs

\* What an open-paren does when it goes through.
OpenParenEffect ==
    /\ stack' = Append(stack, WithAtom)
    /\ Len(stack') = Len(stack) + 1
    /\ exprs' = <<>>
    /\ state' = "Start"
    /\ result' = Pending

\* C12 as stated: every open-paren finalizes the atom in progress into the
\* buffer that was current, pushes that buffer, starts an empty one and
\* resets the state.
C12_AsStated ==
    [][HasNext /\ code[pos + 1] = "(" => OpenParenEffect]_vars

\* C12 amended: an open-paren does so unless the atom in progress is digits
\* '.' (IncompleteFloating); then read returns InvalidAtom and neither the
\* buffer nor the stack changes.
C12_OpenParenPushes ==
    [][HasNext /\ code[pos + 1] = "("
       => IF state # "IncompleteFloating"
          THEN OpenParenEffect
          ELSE /\ result' = Err(InvalidAtom)
               /\ pc' = "done"
               /\ UNCHANGED <<exprs, stack, state>>]_vars

\* An open-paren has just been read behind an atom, inside an open list:
\* the atom is the last element of the pushed buffer.
C12_Witness ==
    /\ pc = "scan"
    /\ pos >= 3
    /\ code[pos] = "("
    /\ IsAtomChar(code[pos - 1])
    /\ Len(stack) >= 2
    /\ exprs = <<>>
    /\ stack[Len(stack)] # <<>>


\* What a close-paren does when there is a buffer to pop.
CloseParenEffect ==
    /\ list' = ListExpr(WithAtom)
    /\ exprs' = Append(stack[Len(stack)], ListExpr(WithAtom))
    /\ stack' = SubSeq(stack, 1, Len(stack) - 1)
    /\ Len(stack') = Len(stack) - 1
    /\ state' = "Start"
    /\ result' = Pending

\* C13 as stated: every close-paren met with a non-empty stack closes the
\* current buffer, atom in progress last, into a List that becomes the last
\* child of the popped parent; met with an empty stack it gives
\* MissingOpenParen.
C13_AsStated ==
    [][HasNext /\ code[pos + 1] = ")"
       => IF stack # <<>>
          THEN CloseParenEffect
          ELSE result' = Err(MissingOpenParen) /\ pc' = "done"]_vars

\* C13 amended: a close-paren does so unless the atom in progress is digits
\* '.' (IncompleteFloating); then read returns InvalidAtom, whether the
\* stack is empty or not, and neither the buffer nor the stack changes.
C13_CloseParenPops ==
    [][HasNext /\ code[pos + 1] = ")"
       => IF state = "IncompleteFloating"
          THEN /\ result' = Err(InvalidAtom)
               /\ pc' = "done"
               /\ UNCHANGED <<exprs, stack, state, list>>
          ELSE IF stack # <<>>
          THEN CloseParenEffect
          ELSE result' = Err(MissingOpenParen) /\ pc' = "done"]_vars

\* A close-paren has just closed a list that ends in an atom, into a parent
\* that had a child already and is itself inside an open list.
C13_Witness ==
    /\ pc = "scan"
    /\ pos >= 2
    /\ code[pos] = ")"
    /\ IsAtomChar(code[pos - 1])
    /\ stack # <<>>
    /\ Len(exprs) >= 2
    /\ exprs[Len(exprs)] = list
    /\ list.children # <<>>


\* The classes of the columns of the transition table of the specification.
CharClass(c) ==
    IF c \in Digit THEN "digit" ELSE IF c = "." THEN "point" ELSE "other"

\* The transition table of the specification, row by row; "error" is a
\* rejected pair.
SpecTable(st, cls) ==
    CASE st = "Start" -> IF cls = "digit" THEN "Integer" ELSE "Symbol"
      [] st = "Symbol" -> "Symbol"
      [] st = "Integer" ->
            IF cls = "digit" THEN "Integer"
            ELSE IF cls = "point" THEN "IncompleteFloating" ELSE "error"
      [] st = "IncompleteFloating" -> IF cls = "digit" THEN "Floating" ELSE "error"
      [] st = "Floating" -> IF cls = "digit" THEN "Floating" ELSE "error"

AtomStates == {"Start", "Symbol", "Integer", "IncompleteFloating", "Floating"}

\* C14: on a character that is neither whitespace nor a paren the step of
\* read is the one of the table: a rejected pair ends read with an error, an
\* accepted one moves to the state of the table, appends the character to
\* the accumulator and leaves the current buffer and the stack alone; and
\* the code's transition agrees with the table on every pair.
C14_TransitionTable ==
    /\ [][HasNext /\ IsAtomChar(code[pos + 1])
          => LET t == SpecTable(state, CharClass(code[pos + 1]))
             IN  IF t = "error"
                 THEN result'.kind = "Err" /\ pc' = "done"
                 ELSE /\ state' = t
                      /\ accum' = Append(accum, code[pos + 1])
                      /\ exprs' = exprs
                      /\ stack' = stack
                      /\ result' = Pending]_vars
    /\ [](\A st \in AtomStates : \A c \in {a \in Alphabet : IsAtomChar(a)} :
             LET t == SpecTable(st, CharClass(c))
             IN  NextState(st, c) = IF t = "error" THEN "Reject" ELSE t)

\* A number has gone through Integer and IncompleteFloating into Floating
\* and stayed there on one more digit, inside an open list.
C14_Witness ==
    /\ pc = "scan"
    /\ state = "Floating"
    /\ Len(accum) >= 4
    /\ stack # <<>>


\* C15 as stated: whitespace read in Start state changes neither the state,
\* the accumulator, the current buffer nor the stack; read in any other
\* state it makes the atom in progress the last element of the current
\* buffer, leaves the stack alone and resets the state to Start.
C15_AsStated ==
    [][HasNext /\ code[pos + 1] \in Whitespace
       => IF state = "Start"
          THEN UNCHANGED <<state, accum, exprs, stack>>
          ELSE exprs' = WithAtom /\ stack' = stack /\ state' = "Start"]_vars

\* C15 amended: so it is in Start, Symbol, Integer and Floating state; in
\* IncompleteFloating state (digits '.') whitespace makes read return
\* InvalidAtom with the state, the buffer and the stack as they were.
C15_WhitespaceEndsAtom ==
    [][HasNext /\ code[pos + 1] \in Whitespace
       => IF state = "Start"
          THEN UNCHANGED <<state, accum, exprs, stack>> /\ result' = Pending
          ELSE IF state = "IncompleteFloating"
          THEN /\ result' = Err(InvalidAtom)
               /\ pc' = "done"
               /\ UNCHANGED <<state, exprs, stack>>
          ELSE /\ exprs' = WithAtom
               /\ stack' = stack
               /\ state' = "Start"
               /\ result' = Pending]_vars

\* A tab, newline or carriage return has just ended an atom inside an open
\* list.
C15_Witness ==
    /\ pc = "scan"
    /\ pos >= 2
    /\ code[pos] \in {"\t", "\n", "\r"}
    /\ IsAtomChar(code[pos - 1])
    /\ state = "Start"
    /\ stack # <<>>
    /\ exprs # <<>>


\* The step about to be taken finalizes an atom: an atom that can be
\* finalized is in progress and whitespace, a paren or the end of the input
\* comes next.
Finalizes ==
    /\ pc = "scan"
    /\ state \in {"Symbol", "Integer", "Floating"}
    /\ Boundary(code, pos + 1)

\* While read is running the accumulator is empty exactly in Start state and
\* holds the characters read since the last whitespace or paren, so nothing
\* of an earlier atom.
AccumIsCurrentAtom ==
    /\ accum = <<>> <=> state = "Start"
    /\ pc = "scan" => accum = RunBefore(code, pos + 1)

\* C16 as stated: every step that finalizes an atom clears the accumulator,
\* and the accumulator is the text of the atom in progress.
C16_AsStated ==
    /\ [][Finalizes => accum' = <<>>]_vars
    /\ []AccumIsCurrentAtom

\* C16 amended: whitespace and parens clear the accumulator when they
\* finalize an atom; the end of the input finalizes the atom and leaves the
\* accumulator as it is, read returning right after.  The accumulator is the
\* text of the atom in progress at every step.
C16_AccumCleared ==
    /\ [][Finalizes => accum' = IF pos < Len(code) THEN <<>> ELSE accum]_vars
    /\ []AccumIsCurrentAtom

\* A second atom is in progress behind a finalized one, and the accumulator
\* holds the second only.
C16_Witness ==
    /\ pc = "scan"
    /\ state # "Start"
    /\ exprs # <<>>
    /\ exprs[Len(exprs)].tag \in {"Number", "Symbol"}
    /\ Len(accum) >= 2
    /\ accum = RunBefore(code, pos + 1)


\* C17: read ends, with Ok or with an error, on every input; every step
\* before the end consumes exactly the next character, the position never
\* goes back or past the end, and nothing happens once read has returned.
C17_Terminates ==
    /\ <>(pc = "done" /\ result.kind \in {"Ok", "Err"})
    /\ [][pc = "scan" /\ (pos' = pos + 1 \/ (pos' = pos /\ pos = Len(code) /\ pc' = "done"))]_vars
    /\ [](pos \in 0..Len(code))

\* read has returned after consuming a text of four characters or more to
\* its end.
C17_Witness ==
    /\ pc = "done"
    /\ pos = Len(code)
    /\ pos >= 4
    /\ result.kind = "Ok"


\* C18: as long as read has met no error, the stack holds as many buffers as
\* the characters read so far have open-parens in excess of close-parens,
\* and that number is not negative.
C18_StackDepth ==
    result.kind # "Err" =>
        /\ Len(stack) = Depth(code, pos)
        /\ Depth(code, pos) >= 0

\* The stack is two deep after a list has been closed and two more opened.
C18_Witness ==
    /\ pc = "scan"
    /\ Len(stack) = 2
    /\ Count(code, ")", pos) >= 1
    /\ Count(code, "(", pos) = 3


\* C19: no step taken in Start state returns InvalidAtom, so InvalidAtom is
\* only ever returned with the state IncompleteFloating; the empty text, a
\* text of whitespace only and "()" are read without error.
C19_InvalidAtomOnlyIncomplete ==
    /\ [][state = "Start" => result'.err # InvalidAtom]_vars
    /\ [](result.err = InvalidAtom => state = "IncompleteFloating")
    /\ [](/\ pc = "done"
          /\ \/ \A i \in 1..Len(code) : code[i] \in Whitespace
             \/ code = <<"(", ")">>
          => result.kind = "Ok")

\* InvalidAtom has been returned in IncompleteFloating state after
\* whitespace was read in Start state.
C19_Witness ==
    /\ pc = "done"
    /\ result = Err(InvalidAtom)
    /\ state = "IncompleteFloating"
    /\ code[1] \in Whitespace


\* A paren as an item of a token sequence.
ParenItem(c) == [tag |-> c, num |-> <<>>, sym |-> <<>>, children |-> <<>>]

\* The tokens of a text from position p on, split at whitespace and parens:
\* each paren, and each atom as the node its text stands for (a Symbol by
\* its text; a Number keeps its value only, so by its value).
RECURSIVE TokensFrom(_, _)
TokensFrom(s, p) ==
    IF p > Len(s) + 1 THEN <<>>
    ELSE IF ~Boundary(s, p) THEN TokensFrom(s, p + 1)
    ELSE (IF RunBefore(s, p) # <<>> THEN <<AtomOf(RunBefore(s, p))>> ELSE <<>>)
         \o (IF p <= Len(s) /\ s[p] \in {"(", ")"} THEN <<ParenItem(s[p])>> ELSE <<>>)
         \o TokensFrom(s, p + 1)

\* A forest written back as tokens: an atom as itself, a List as '(' then
\* its children then ')'.
RECURSIVE Unparse(_)
Unparse(es) ==
    IF es = <<>> THEN <<>>
    ELSE LET h == Head(es)
         IN  (IF h.tag = "List"
              THEN <<ParenItem("(")>> \o Unparse(h.children) \o <<ParenItem(")")>>
              ELSE <<h>>) \o Unparse(Tail(es))

\* C20: when read returns Ok, the forest written back as tokens is the token
\* sequence of the input: nothing dropped, repeated or out of order, at any
\* depth.
C20_ForestIsTokenSequence ==
    result.kind = "Ok" => Unparse(result.val) = TokensFrom(code, 1)

\* A forest with a list of two atoms or more, one of them a Number, has
\* been returned.
C20_Witness ==
    /\ pc = "done"
    /\ result.kind = "Ok"
    /\ \E i \in 1..Len(result.val) :
          /\ result.val[i].tag = "List"
          /\ Len(result.val[i].children) >= 2
          /\ \E j \in 1..Len(result.val[i].children) :
                result.val[i].children[j].tag = "Number"


====
